---- MODULE Spec2Model ----
(***************************************************************************)
(* A model of hl_purr_to_perps.py: the decimal arithmetic of the sell and  *)
(* transfer quantization (round_size, safe_amount), the balance and        *)
(* metadata lookups, and main()'s sequence of venue calls.                 *)
(*                                                                         *)
(* Python's decimal.Decimal is modelled as decimal.py holds it: a value is *)
(* the record (sign, int, exp, special), its coefficient a sequence of     *)
(* decimal digits, so that no machine-integer width limits the arithmetic, *)
(* with the infinities and NaNs and the exceptions the context traps.      *)
(***************************************************************************)
EXTENDS Integers, Sequences, FiniteSets, TLC

(***************************************************************************)
(* Natural numbers of any size: digit sequences, most significant first,   *)
(* without leading zeros (zero is <<0>>). These are Python's ints inside   *)
(* decimal.Decimal. The arithmetic works on limbs of four digits.          *)
(***************************************************************************)
Max(a, b) == IF a >= b THEN a ELSE b

Min(a, b) == IF a <= b THEN a ELSE b

Zeros(n) == [i \in 1..n |-> 0]

\* e, with v evaluated first: TLC evaluates an operator's arguments when they
\* are first used, and a recursive result first used deep inside e would be
\* computed on top of e's evaluation stack
Having(v, e) == IF v = v THEN e ELSE e

\* s without its leading zeros
StripZeros(s) ==
    IF \A i \in 1..Len(s) : s[i] = 0 THEN <<0>>
    ELSE LET k == CHOOSE k \in 1..Len(s) :
                      s[k] /= 0 /\ \A j \in 1..(k - 1) : s[j] = 0
         IN  SubSeq(s, k, Len(s))

PadLeft(s, n) == Zeros(n - Len(s)) \o s

\* -1, 0 or 1 as a < b, a = b, a > b, for sequences of one length
LexCmp(a, b) ==
    IF a = b THEN 0
    ELSE LET k == CHOOSE k \in 1..Len(a) :
                      a[k] /= b[k] /\ \A j \in 1..(k - 1) : a[j] = b[j]
         IN  IF a[k] < b[k] THEN -1 ELSE 1

\* -1, 0 or 1 as a < b, a = b, a > b, for sequences without leading zeros
NatCmp(a, b) ==
    IF Len(a) < Len(b) THEN -1
    ELSE IF Len(a) > Len(b) THEN 1
    ELSE LexCmp(a, b)

LimbBase == 10 ^ 4

\* the limbs of a digit sequence, and the digits of a limb sequence
Limbs(a) ==
    LET \* the limbs of a digit sequence whose length is a multiple of four
        LimbsOf(p) ==
            [j \in 1..(Len(p) \div 4) |->
                p[4 * j - 3] * 1000 + p[4 * j - 2] * 100 + p[4 * j - 1] * 10
                    + p[4 * j]]
    IN  LimbsOf(PadLeft(a, 4 * ((Len(a) + 3) \div 4)))

Digits(l) ==
    StripZeros([i \in 1..(4 * Len(l)) |->
                   (l[(i + 3) \div 4] \div (10 ^ (3 - ((i - 1) % 4)))) % 10])

LimbAdd(a, b) ==
    LET \* the limbs of x[1..i] + y[1..i] + carry, for x and y of one length
        RECURSIVE AddRec(_, _, _, _)
        AddRec(x, y, i, carry) ==
            IF i = 0 THEN <<carry>>
            ELSE AddRec(x, y, i - 1, (x[i] + y[i] + carry) \div LimbBase)
                     \o <<(x[i] + y[i] + carry) % LimbBase>>

        LimbAddAt(x, y, n) ==
            StripZeros(AddRec(PadLeft(x, n), PadLeft(y, n), n, 0))
    IN  LimbAddAt(a, b, Max(Len(a), Len(b)))

\* a - b for a >= b
LimbSub(a, b) ==
    LET \* the limbs of x[1..i] - y[1..i] - borrow, for x and y of one length
        RECURSIVE SubRec(_, _, _, _)
        SubRec(x, y, i, borrow) ==
            IF i = 0 THEN <<>>
            ELSE SubRec(x, y, i - 1, IF x[i] - y[i] - borrow >= 0 THEN 0 ELSE 1)
                     \o <<(x[i] - y[i] - borrow + LimbBase) % LimbBase>>
    IN  StripZeros(SubRec(a, PadLeft(b, Len(a)), Len(a), 0))

\* a * d for one limb d
LimbMulOne(a, d) ==
    LET \* the limbs of x[1..i] * y + carry
        RECURSIVE MulLimbRec(_, _, _, _)
        MulLimbRec(x, y, i, carry) ==
            IF i = 0 THEN <<carry>>
            ELSE MulLimbRec(x, y, i - 1, (x[i] * y + carry) \div LimbBase)
                     \o <<(x[i] * y + carry) % LimbBase>>
    IN  StripZeros(MulLimbRec(a, d, Len(a), 0))

NatAdd(a, b) == Digits(LimbAdd(Limbs(a), Limbs(b)))

\* a - b for a >= b
NatSub(a, b) == Digits(LimbSub(Limbs(a), Limbs(b)))

NatMul(a, b) ==
    LET \* hi + x * d
        MulStep(hi, x, d) == Having(hi, LimbAdd(hi, LimbMulOne(x, d)))

        \* x * y[1..i]
        RECURSIVE MulRec(_, _, _)
        MulRec(x, y, i) ==
            IF i = 0 THEN <<0>>
            ELSE MulStep(StripZeros(MulRec(x, y, i - 1) \o <<0>>), x, y[i])
    IN  Digits(MulRec(Limbs(a), Limbs(b), (Len(b) + 3) \div 4))

\* divmod(a, b) for b > 0: schoolbook long division
NatDivMod(a, b) ==
    LET \* the largest k in lo..hi with k * y <= r, by bisection
        RECURSIVE QuotLimb(_, _, _, _)
        QuotLimb(r, y, lo, hi) ==
            IF lo = hi THEN lo
            ELSE IF NatCmp(LimbMulOne(y, (lo + hi + 1) \div 2), r) <= 0
                 THEN QuotLimb(r, y, (lo + hi + 1) \div 2, hi)
            ELSE QuotLimb(r, y, lo, (lo + hi + 1) \div 2 - 1)

        \* the quotient q extended by the limb k, and what is left of r
        DivPut(q, r, y, k) ==
            Having(k, [q |-> q \o <<k>>, r |-> LimbSub(r, LimbMulOne(y, k))])

        \* one step of long division: p is the result so far, r the running
        \* remainder
        DivStep(p, r, y) ==
            Having(r, DivPut(p.q, r, y, QuotLimb(r, y, 0, LimbBase - 1)))

        \* p with the next limb d of the dividend brought down
        DivNext(p, d, y) == Having(p, DivStep(p, StripZeros(p.r \o <<d>>), y))

        \* quotient limbs and remainder of x[1..i] divided by y
        RECURSIVE DivRec(_, _, _)
        DivRec(x, y, i) ==
            IF i = 0 THEN [q |-> <<>>, r |-> <<0>>]
            ELSE DivNext(DivRec(x, y, i - 1), x[i], y)

        DivDigits(d) == [q |-> Digits(d.q), r |-> Digits(d.r)]
    IN  DivDigits(DivRec(Limbs(a), Limbs(b), (Len(a) + 3) \div 4))

RECURSIVE NatPow(_, _)
NatPow(a, n) ==
    LET PowStep(x, p) == Having(p, NatMul(x, p))
    IN  IF n = 0 THEN <<1>> ELSE PowStep(a, NatPow(a, n - 1))

RECURSIVE NatOfInt(_)
NatOfInt(n) == IF n < 10 THEN <<n>> ELSE NatOfInt(n \div 10) \o <<n % 10>>

RECURSIVE IntOfNat(_)
IntOfNat(s) ==
    IF s = <<>> THEN 0 ELSE 10 * IntOfNat(SubSeq(s, 1, Len(s) - 1)) + s[Len(s)]

NatIsZero(a) == a = <<0>>

\* a * 10^n
NatShift(a, n) == IF NatIsZero(a) THEN a ELSE a \o Zeros(n)

(***************************************************************************)
(* Text: the characters of decimal literals.                               *)
(***************************************************************************)
DigitChars == <<"0", "1", "2", "3", "4", "5", "6", "7", "8", "9">>

IsDigitChar(c) == \E i \in 1..10 : DigitChars[i] = c

DigitVal(c) == (CHOOSE i \in 1..10 : DigitChars[i] = c) - 1

\* the text of the digits s, built by halves (a 401-digit int(sz) is met at
\* line 103)
RECURSIVE DigitsStr(_)
DigitsStr(s) ==
    IF s = <<>> THEN ""
    ELSE IF Len(s) = 1 THEN DigitChars[s[1] + 1]
    ELSE DigitsStr(SubSeq(s, 1, Len(s) \div 2))
         \o DigitsStr(SubSeq(s, Len(s) \div 2 + 1, Len(s)))

RECURSIVE ZerosStr(_)
ZerosStr(n) == IF n <= 0 THEN "" ELSE "0" \o ZerosStr(n - 1)

\* str(n) of a Python int
IntStr(n) == IF n < 0 THEN "-" \o DigitsStr(NatOfInt(-n)) ELSE DigitsStr(NatOfInt(n))

CharAt(s, i) == SubSeq(s, i, i)

AllDigits(s) == \A i \in 1..Len(s) : IsDigitChar(CharAt(s, i))

\* the digits that the text s, all digits, is made of
DigitsOf(s) == [i \in 1..Len(s) |-> DigitVal(CharAt(s, i))]

\* the leading digits of s and what follows them
ScanDigits(s, acc) ==
    LET \* how many digits t begins with
        DigitPrefix(t) ==
            CHOOSE n \in 0..Len(t) :
                /\ n = Len(t) \/ ~IsDigitChar(CharAt(t, n + 1))
                /\ \A i \in 1..n : IsDigitChar(CharAt(t, i))

        ScanTo(t, got, n) ==
            [digs |-> got \o DigitsOf(SubSeq(t, 1, n)),
             rest |-> SubSeq(t, n + 1, Len(t))]
    IN  ScanTo(s, acc, DigitPrefix(s))

\* the whitespace that Decimal() strips from a text (the characters of
\* str.isspace), as far as a string here holds it, which is up to U+00FF:
\* the space, tab, line feed, carriage return and form feed, the vertical
\* tab (U+000B), the separators U+001C to U+001F, the next line U+0085 and
\* the no-break space U+00A0
Whitespace ==
    {" ", "\t", "\n", "\r", "\f", "", "", "", "", "",
     "", " "}

\* the whitespace that float() strips from a text: that of str.isspace
\* without the separators U+001C to U+001F
FloatSpace == Whitespace \ {"", "", "", ""}

\* s without the characters of space that it begins and ends with
Strip(s, space) ==
    LET \* the first and the last place of t that is not of space,
        \* Len(t) + 1 and 0 when there is none
        FirstInk(t) ==
            CHOOSE i \in 1..(Len(t) + 1) :
                /\ i = Len(t) + 1 \/ CharAt(t, i) \notin space
                /\ \A j \in 1..(i - 1) : CharAt(t, j) \in space

        LastInk(t) ==
            CHOOSE i \in 0..Len(t) :
                /\ i = 0 \/ CharAt(t, i) \notin space
                /\ \A j \in (i + 1)..Len(t) : CharAt(t, j) \in space
    IN  IF s = "" THEN s
        ELSE IF /\ CharAt(s, 1) \notin space
                /\ CharAt(s, Len(s)) \notin space
             THEN s
        ELSE IF FirstInk(s) > Len(s) THEN ""
        ELSE SubSeq(s, FirstInk(s), LastInk(s))

\* s.replace(c, "") for a character c, by halves
RECURSIVE Without(_, _)
Without(s, c) ==
    IF \A i \in 1..Len(s) : CharAt(s, i) /= c THEN s
    ELSE IF Len(s) = 1 THEN ""
    ELSE Without(SubSeq(s, 1, Len(s) \div 2), c)
         \o Without(SubSeq(s, Len(s) \div 2 + 1, Len(s)), c)

LowerChar(c) ==
    LET \* the letters of the literals Infinity, sNaN and E, which are read in
        \* either case
        Capitals == <<"I", "N", "F", "T", "Y", "A", "S", "E">>

        Smalls == <<"i", "n", "f", "t", "y", "a", "s", "e">>
    IN  IF \E k \in 1..Len(Capitals) : Capitals[k] = c
        THEN Smalls[CHOOSE k \in 1..Len(Capitals) : Capitals[k] = c]
        ELSE c

\* s is the word w, written in small letters, in either case
Spells(s, w) ==
    Len(s) = Len(w) /\ \A i \in 1..Len(w) : LowerChar(CharAt(s, i)) = CharAt(w, i)

(***************************************************************************)
(* decimal.Decimal: the triple (sign, int, exp) of value                   *)
(* (-1)^sign * int * 10^exp, or a special value (an infinity, a NaN with   *)
(* its payload in int), under the context that line 26 sets: 28 digits,    *)
(* ROUND_HALF_EVEN, exponents from Emin to Emax, and InvalidOperation,     *)
(* DivisionByZero and Overflow trapped, so that they raise.                *)
(***************************************************************************)
prec == 28

Emax == 999999

Emin == -999999

\* Context.Etiny() and Context.Etop()
Etiny == Emin - prec + 1

Etop == Emax - prec + 1

\* a finite value
Dec(s, i, e) == [sign |-> s, int |-> i, exp |-> e, special |-> ""]

\* Infinity and -Infinity (decimal.py marks them with the exponent 'F'); also
\* float's inf and -inf
Infinity(sign) == [sign |-> sign, int |-> <<>>, exp |-> 0, special |-> "F"]

\* NaN and sNaN with the payload diag (decimal.py: the exponents 'n' and 'N');
\* also float's nan, which has no payload
NaN(sign, diag, signaling) ==
    [sign |-> sign, int |-> diag, exp |-> 0,
     special |-> IF signaling THEN "N" ELSE "n"]

IsInfinite(d) == d.special = "F"

IsNaN(d) == d.special \in {"n", "N"}

IsSNaN(d) == d.special = "N"

\* the pieces of a literal [sign] digits [. digits] [E [sign] digits]
SignOf(s) == IF s /= "" /\ Head(s) = "-" THEN 1 ELSE 0

Unsigned(s) == IF s /= "" /\ Head(s) \in {"-", "+"} THEN Tail(s) ELSE s

ScanFraction(r) ==
    IF r /= "" /\ Head(r) = "." THEN ScanDigits(Tail(r), <<>>)
    ELSE [digs |-> <<>>, rest |-> r]

ScanExponent(r) ==
    IF r /= "" /\ Head(r) \in {"E", "e"}
    THEN (1 - 2 * SignOf(Tail(r)))
             * IntOfNat(ScanDigits(Unsigned(Tail(r)), <<>>).digs)
    ELSE 0

\* the forms of a literal after its sign
IsNumberText(b) ==
    LET \* what may follow the digits of a number: nothing, or E [sign] digits
        ExponentOk(r) ==
            \/ r = ""
            \/ /\ LowerChar(Head(r)) = "e"
               /\ Unsigned(Tail(r)) /= ""
               /\ AllDigits(Unsigned(Tail(r)))

        \* a number has a digit, before or after the point
        NumberOk(ip, fp) ==
            Len(ip.digs) + Len(fp.digs) >= 1 /\ ExponentOk(fp.rest)

        NumberScanned(ip) == NumberOk(ip, ScanFraction(ip.rest))
    IN  NumberScanned(ScanDigits(b, <<>>))

IsInfText(b) == Spells(b, "inf") \/ Spells(b, "infinity")

IsNaNText(b) ==
    Len(b) >= 3 /\ Spells(SubSeq(b, 1, 3), "nan") /\ AllDigits(SubSeq(b, 4, Len(b)))

IsSNaNText(b) ==
    Len(b) >= 4 /\ Spells(SubSeq(b, 1, 4), "snan") /\ AllDigits(SubSeq(b, 5, Len(b)))

\* the text that the parser sees: value.strip().replace("_", "")
Clean(s) == Without(Strip(s, Whitespace), "_")

\* Decimal(text) raises InvalidOperation (ConversionSyntax) for a text that
\* is not a literal
DecimalRaises(s) ==
    /\ ~IsNumberText(Unsigned(Clean(s)))
    /\ ~IsInfText(Unsigned(Clean(s)))
    /\ ~IsNaNText(Unsigned(Clean(s)))
    /\ ~IsSNaNText(Unsigned(Clean(s)))

\* the payload of a NaN: its digits without leading zeros, none for 0
Payload(digs) == IF StripZeros(digs) = <<0>> THEN <<>> ELSE StripZeros(digs)

\* Decimal(text) of a text that is a literal
Decimal(s) ==
    LET DecimalOf(sg, ip, fp) ==
            Dec(sg, StripZeros(ip.digs \o fp.digs),
                ScanExponent(fp.rest) - Len(fp.digs))

        DecimalFrom(sg, ip) == DecimalOf(sg, ip, ScanFraction(ip.rest))

        DecimalOfBody(sg, b) ==
            IF IsInfText(b) THEN Infinity(sg)
            ELSE IF IsSNaNText(b)
                 THEN NaN(sg, Payload(DigitsOf(SubSeq(b, 5, Len(b)))), TRUE)
            ELSE IF IsNaNText(b)
                 THEN NaN(sg, Payload(DigitsOf(SubSeq(b, 4, Len(b)))), FALSE)
            ELSE DecimalFrom(sg, ScanDigits(b, <<>>))

        DecimalOfClean(c) == DecimalOfBody(SignOf(c), Unsigned(c))
    IN  DecimalOfClean(Clean(s))

DecIsZero(d) == d.special = "" /\ NatIsZero(d.int)

\* Decimal.adjusted(): the exponent of the most significant digit
Adjusted(d) == d.exp + Len(d.int) - 1

\* Decimal.__str__
DecStr(d) ==
    LET \* Decimal.__str__ of a finite value: plain notation, or scientific
        \* when exp > 0 or the value has more than six leading fractional
        \* zeros
        FiniteStr(v) ==
            LET n          == Len(v.int)
                leftdigits == v.exp + n
                dotplace   == IF v.exp <= 0 /\ leftdigits > -6 THEN leftdigits
                              ELSE 1
                intpart    == IF dotplace <= 0 THEN "0"
                              ELSE IF dotplace >= n
                                   THEN DigitsStr(v.int) \o ZerosStr(dotplace - n)
                              ELSE DigitsStr(SubSeq(v.int, 1, dotplace))
                fracpart   == IF dotplace <= 0
                              THEN "." \o ZerosStr(-dotplace) \o DigitsStr(v.int)
                              ELSE IF dotplace >= n THEN ""
                              ELSE "." \o DigitsStr(SubSeq(v.int, dotplace + 1,
                                                           n))
                expo       == IF leftdigits = dotplace THEN ""
                              ELSE "E"
                                  \o (IF leftdigits >= dotplace THEN "+" ELSE "")
                                  \o IntStr(leftdigits - dotplace)
            IN  (IF v.sign = 1 THEN "-" ELSE "") \o intpart \o fracpart \o expo

        \* Decimal.__str__ of a special value: Infinity, NaN or sNaN with its
        \* payload
        SpecialStr(v) ==
            (IF v.sign = 1 THEN "-" ELSE "")
                \o (IF IsInfinite(v) THEN "Infinity"
                    ELSE (IF IsSNaN(v) THEN "sNaN" ELSE "NaN")
                             \o DigitsStr(v.int))
    IN  IF d.special = "" THEN FiniteStr(d) ELSE SpecialStr(d)

\* the coefficient of d at exponent e <= d.exp
AlignedInt(d, e) == NatShift(d.int, d.exp - e)

\* ROUND_HALF_EVEN (_round_half_even): the first n < Len(c) digits of the
\* coefficient c are to be raised by one
RoundsUp(c, n) ==
    LET \* the digits after the first m of the coefficient k are exactly one
        \* half
        ExactHalf(k, m) == k[m + 1] = 5 /\ \A i \in (m + 2)..Len(k) : k[i] = 0
    IN  c[n + 1] >= 5 /\ ~(ExactHalf(c, n) /\ (n = 0 \/ c[n] % 2 = 0))

\* d rounded half-even to its first n digits, at exponent e
RoundedTo(d, n, e) ==
    LET \* the first m digits of c, 0 for none
        CutTo(c, m) == IF m = 0 THEN <<0>> ELSE SubSeq(c, 1, m)

        \* the raised coefficient k at exponent ex; a carry beyond prec digits
        \* drops the last digit
        Carried(sg, k, ex) ==
            IF Len(k) > prec THEN Dec(sg, SubSeq(k, 1, Len(k) - 1), ex + 1)
            ELSE Dec(sg, k, ex)
    IN  IF RoundsUp(d.int, n)
        THEN Carried(d.sign, NatAdd(CutTo(d.int, n), <<1>>), e)
        ELSE Dec(d.sign, CutTo(d.int, n), e)

\* d rounded to the exponent e when its own exponent is below e
FixTo(d, e) ==
    LET \* a value wholly below 10^x is rounded as 10^(x - 1)
        Shrunk(v, x) ==
            IF Len(v.int) + v.exp < x THEN Dec(v.sign, <<1>>, x - 1) ELSE v

        FixShrunk(v, x) == RoundedTo(v, Len(v.int) + v.exp - x, x)
    IN  IF d.exp >= e THEN d ELSE FixShrunk(Shrunk(d, e), e)

\* the least exponent that _fix leaves to d: that of prec digits, and Etiny
\* for a subnormal
FixExp(d) == Max(Len(d.int) + d.exp - prec, Etiny)

\* Decimal._fix_nan: a payload longer than prec digits keeps its last prec
FixNaN(d) ==
    IF Len(d.int) <= prec THEN d
    ELSE NaN(d.sign, Payload(SubSeq(d.int, Len(d.int) - prec + 1, Len(d.int))),
             IsSNaN(d))

\* Decimal._fix: a coefficient longer than prec digits, or an exponent below
\* Etiny, is rounded half-even; the exponent of a zero is brought into
\* Etiny..Emax
Fix(d) ==
    IF IsNaN(d) THEN FixNaN(d)
    ELSE IF IsInfinite(d) THEN d
    ELSE IF DecIsZero(d) THEN Dec(d.sign, <<0>>, Min(Max(d.exp, Etiny), Emax))
    ELSE FixTo(d, FixExp(d))

\* the rounding of d to the exponent e leaves a value above Emax
Overflowed(d, e) == e > Etop \/ (d.exp < e /\ FixTo(d, e).exp > Etop)

\* _fix raises Overflow: the rounded value is above Emax
FixRaises(d) == d.special = "" /\ ~DecIsZero(d) /\ Overflowed(d, FixExp(d))

\* -1, 0 or 1: the sign of the value
Sgn(d) == IF DecIsZero(d) THEN 0 ELSE IF d.sign = 1 THEN -1 ELSE 1

\* -1, 0 or 1 as a < b, a == b, a > b (Decimal._cmp) for finite values:
\* by their signs, then by their adjusted exponents, then by their
\* coefficients at one exponent
CmpFinite(a, b) ==
    IF Sgn(a) /= Sgn(b) THEN (IF Sgn(a) < Sgn(b) THEN -1 ELSE 1)
    ELSE IF Sgn(a) = 0 THEN 0
    ELSE IF Adjusted(a) /= Adjusted(b)
         THEN (IF Adjusted(a) > Adjusted(b) THEN Sgn(a) ELSE -Sgn(a))
    ELSE Sgn(a) * NatCmp(AlignedInt(a, Min(a.exp, b.exp)),
                         AlignedInt(b, Min(a.exp, b.exp)))

\* Decimal._isinfinity: 1 for Infinity, -1 for -Infinity, 0 otherwise
InfinityOf(d) == IF ~IsInfinite(d) THEN 0 ELSE IF d.sign = 1 THEN -1 ELSE 1

\* -1, 0 or 1 as a < b, a = b or a > b, for two values that are not NaN; an
\* infinity lies beyond every finite value
DecCmp(a, b) ==
    IF IsInfinite(a) \/ IsInfinite(b)
    THEN (IF InfinityOf(a) = InfinityOf(b) THEN 0
          ELSE IF InfinityOf(a) < InfinityOf(b) THEN -1 ELSE 1)
    ELSE CmpFinite(a, b)

\* <, <=, > and >= raise InvalidOperation when an operand is a NaN
CmpRaises(a, b) == IsNaN(a) \/ IsNaN(b)

\* Decimal.copy_negate
DecNeg(d) == [d EXCEPT !.sign = 1 - d.sign]

\* d written at the exponent e <= d.exp
Rescaled(d, e) == Dec(d.sign, AlignedInt(d, e), e)

\* the sum of two coefficients at one exponent e, given their signs and
\* c, which compares them
SumCompared(sa, ma, sb, mb, e, c) ==
    IF sa = sb THEN Dec(sa, NatAdd(ma, mb), e)
    ELSE IF c = 0 THEN Dec(0, <<0>>, e)
    ELSE Dec(IF c > 0 THEN sa ELSE sb,
             NatSub(IF c > 0 THEN ma ELSE mb, IF c > 0 THEN mb ELSE ma), e)

SumAligned(sa, ma, sb, mb, e) == SumCompared(sa, ma, sb, mb, e, NatCmp(ma, mb))

\* _normalize: the exponent below which the smaller of two operands no
\* longer shows in prec digits of their sum, big being the operand of the
\* larger exponent
NormalExp(big) == big.exp + Min(-1, Len(big.int) - prec - 2)

\* the operand d, which stands for 1 at the exponent e when it lies wholly
\* below it
Normalized(d, e) == IF Len(d.int) + d.exp - 1 < e THEN Dec(d.sign, <<1>>, e) ELSE d

\* the sum of two values other than 0, the exponent of a not below that of b
SumOrdered(a, b) ==
    SumAligned(a.sign, AlignedInt(a, Normalized(b, NormalExp(a)).exp),
               b.sign, Normalized(b, NormalExp(a)).int, Normalized(b, NormalExp(a)).exp)

\* the sum of two finite values before _fix, e the smaller exponent: exact
\* but for an operand that _normalize replaces
SumAt(a, b, e) ==
    IF DecIsZero(a) /\ DecIsZero(b) THEN Dec(Min(a.sign, b.sign), <<0>>, e)
    ELSE IF DecIsZero(a) THEN Rescaled(b, Max(e, b.exp - prec - 1))
    ELSE IF DecIsZero(b) THEN Rescaled(a, Max(e, a.exp - prec - 1))
    ELSE IF a.exp >= b.exp THEN SumOrdered(a, b)
    ELSE SumOrdered(b, a)

\* Decimal.__add__: a NaN operand is the result, then an infinite one; the
\* exact sum of finite values at the smaller exponent goes through _fix
DecAdd(a, b) ==
    IF IsNaN(a) THEN FixNaN(a)
    ELSE IF IsNaN(b) THEN FixNaN(b)
    ELSE IF IsInfinite(a) THEN a
    ELSE IF IsInfinite(b) THEN b
    ELSE Fix(SumAt(a, b, Min(a.exp, b.exp)))

\* the exception that __add__ raises, "" for none: InvalidOperation for an
\* sNaN and for Infinity + -Infinity, Overflow from _fix
AddError(a, b) ==
    IF IsSNaN(a) \/ IsSNaN(b) THEN "InvalidOperation"
    ELSE IF IsNaN(a) \/ IsNaN(b) THEN ""
    ELSE IF IsInfinite(a) /\ IsInfinite(b)
         THEN (IF a.sign /= b.sign THEN "InvalidOperation" ELSE "")
    ELSE IF IsInfinite(a) \/ IsInfinite(b) THEN ""
    ELSE IF FixRaises(SumAt(a, b, Min(a.exp, b.exp))) THEN "Overflow"
    ELSE ""

\* Decimal.__sub__: a NaN operand is the result as it stands, otherwise
\* a + (-b)
DecSub(a, b) ==
    IF IsNaN(a) THEN FixNaN(a)
    ELSE IF IsNaN(b) THEN FixNaN(b)
    ELSE DecAdd(a, DecNeg(b))

SubError(a, b) == AddError(a, DecNeg(b))

\* Decimal.__mul__
DecMul(a, b) ==
    IF IsNaN(a) THEN FixNaN(a)
    ELSE IF IsNaN(b) THEN FixNaN(b)
    ELSE IF IsInfinite(a) \/ IsInfinite(b) THEN Infinity((a.sign + b.sign) % 2)
    ELSE IF DecIsZero(a) \/ DecIsZero(b)
         THEN Fix(Dec((a.sign + b.sign) % 2, <<0>>, a.exp + b.exp))
    ELSE Fix(Dec((a.sign + b.sign) % 2, NatMul(a.int, b.int), a.exp + b.exp))

\* the exception that __mul__ raises, "" for none: InvalidOperation for an
\* sNaN and for Infinity * 0, Overflow from _fix
MulError(a, b) ==
    IF IsSNaN(a) \/ IsSNaN(b) THEN "InvalidOperation"
    ELSE IF IsNaN(a) \/ IsNaN(b) THEN ""
    ELSE IF IsInfinite(a) THEN (IF DecIsZero(b) THEN "InvalidOperation" ELSE "")
    ELSE IF IsInfinite(b) THEN (IF DecIsZero(a) THEN "InvalidOperation" ELSE "")
    ELSE IF DecIsZero(a) \/ DecIsZero(b) THEN ""
    ELSE IF FixRaises(Dec(0, NatMul(a.int, b.int), a.exp + b.exp)) THEN "Overflow"
    ELSE ""

\* the integer quotient of two finite values, b /= 0, truncated toward zero
Quotient(a, b) ==
    LET e == Min(a.exp, b.exp)
    IN  NatDivMod(AlignedInt(a, e), AlignedInt(b, e)).q

\* Decimal.__floordiv__ for b /= 0: a NaN operand is the result, an infinite
\* a gives an infinity, and finite values their integer quotient at
\* exponent 0, which is 0 when a is 0, b is infinite or a is well below b
DecFloorDiv(a, b) ==
    IF IsNaN(a) THEN FixNaN(a)
    ELSE IF IsNaN(b) THEN FixNaN(b)
    ELSE IF IsInfinite(a) THEN Infinity((a.sign + b.sign) % 2)
    ELSE IF DecIsZero(a) \/ IsInfinite(b) \/ Adjusted(a) - Adjusted(b) <= -2
         THEN Dec((a.sign + b.sign) % 2, <<0>>, 0)
    ELSE Dec((a.sign + b.sign) % 2, Quotient(a, b), 0)

\* the exception that __floordiv__ raises, "" for none: InvalidOperation for
\* an sNaN, for Infinity // Infinity, for 0 // 0 and (DivisionImpossible) for
\* a quotient of more than prec digits, which Decimal._divide first tells
\* from the adjusted exponents; DivisionByZero for x // 0
FloorDivError(a, b) ==
    IF IsSNaN(a) \/ IsSNaN(b) THEN "InvalidOperation"
    ELSE IF IsNaN(a) \/ IsNaN(b) THEN ""
    ELSE IF IsInfinite(a) THEN (IF IsInfinite(b) THEN "InvalidOperation" ELSE "")
    ELSE IF DecIsZero(b)
         THEN (IF DecIsZero(a) THEN "InvalidOperation" ELSE "DivisionByZero")
    ELSE IF DecIsZero(a) \/ IsInfinite(b) \/ Adjusted(a) - Adjusted(b) <= -2 THEN ""
    ELSE IF Adjusted(a) - Adjusted(b) > prec THEN "InvalidOperation"
    ELSE IF Len(Quotient(a, b)) > prec THEN "InvalidOperation"
    ELSE ""

FloorDivRaises(a, b) == FloorDivError(a, b) /= ""

\* Decimal(base) ** (-n) for n >= 0 and a base that divides a power of ten
\* (2, 4, 5, 8, 10, ...): with 1 / base = c * 10^-k at the shortest k, the
\* exact power c^n * 10^(-k * n), then _fix
DecPowNeg(base, n) ==
    LET k == CHOOSE j \in 0..9 :
                 /\ (10 ^ j) % base = 0
                 /\ \A i \in 0..(j - 1) : (10 ^ i) % base /= 0

        c == (10 ^ k) \div base
    IN  IF n = 0 THEN Dec(0, <<1>>, 0)
        ELSE Fix(Dec(0, NatPow(NatOfInt(c), n), -(k * n)))

\* the digits of int(d) for a finite d: the integer part, truncated toward
\* zero
IntDigits(d) ==
    IF DecIsZero(d) THEN <<0>>
    ELSE IF d.exp >= 0 THEN NatShift(d.int, d.exp)
    ELSE IF Len(d.int) + d.exp <= 0 THEN <<0>>
    ELSE SubSeq(d.int, 1, Len(d.int) + d.exp)

\* how many digits int(d) has
IntLength(d) ==
    IF DecIsZero(d) THEN 1
    ELSE IF d.exp >= 0 THEN Len(d.int) + d.exp
    ELSE Max(1, Len(d.int) + d.exp)

\* sys.get_int_max_str_digits(): the longest int that str() converts
MaxStrDigits == 4300

\* the exception that str(int(d)) raises, "" for none: int() raises
\* ValueError for a NaN and OverflowError for an infinity, str() raises
\* ValueError for an int of more than MaxStrDigits digits
IntStrError(d) ==
    IF IsNaN(d) THEN "ValueError"
    ELSE IF IsInfinite(d) THEN "OverflowError"
    ELSE IF IntLength(d) > MaxStrDigits THEN "ValueError"
    ELSE ""

\* str(int(d)) where it does not raise
DecIntStr(d) ==
    (IF d.sign = 1 /\ ~NatIsZero(IntDigits(d)) THEN "-" ELSE "")
        \o DigitsStr(IntDigits(d))

\* the first operand of a.quantize(e) when one of them is special: a NaN, or
\* a when both are infinite
QuantizeSpecial(a, e) ==
    IF IsNaN(a) THEN FixNaN(a) ELSE IF IsNaN(e) THEN FixNaN(e) ELSE a

\* a.quantize(e, rounding=ROUND_DOWN): a at e's exponent, extra digits cut
DecQuantizeDown(a, e) ==
    IF a.special /= "" \/ e.special /= "" THEN QuantizeSpecial(a, e)
    ELSE IF DecIsZero(a) THEN Fix(Dec(a.sign, <<0>>, e.exp))
    ELSE IF a.exp >= e.exp THEN Dec(a.sign, AlignedInt(a, e.exp), e.exp)
    ELSE LET digits == Len(a.int) + a.exp - e.exp
         IN  Dec(a.sign,
                 IF digits <= 0 THEN <<0>> ELSE SubSeq(a.int, 1, digits),
                 e.exp)

\* quantize raises InvalidOperation: for an sNaN, for one infinite operand,
\* for a target exponent outside Etiny..Emax, and for a result above Emax or
\* of more than prec digits
QuantizeRaises(a, e) ==
    IF IsSNaN(a) \/ IsSNaN(e) THEN TRUE
    ELSE IF IsNaN(a) \/ IsNaN(e) THEN FALSE
    ELSE IF IsInfinite(a) \/ IsInfinite(e) THEN ~(IsInfinite(a) /\ IsInfinite(e))
    ELSE IF e.exp < Etiny \/ e.exp > Emax THEN TRUE
    ELSE IF DecIsZero(a) THEN FALSE
    ELSE Adjusted(a) > Emax \/ Adjusted(a) - e.exp + 1 > prec

(***************************************************************************)
(* Python's float: an IEEE 754 binary64 value q * 2^k with q < 2^53, held   *)
(* as the decimal that equals it exactly (every binary64 is a finite        *)
(* decimal), an infinity or nan: float() of a text whose nearest binary64   *)
(* lies beyond the largest finite one is inf, as for the str(int(sz)) of    *)
(* line 103 when the balance has a large exponent.                          *)
(***************************************************************************)
\* 2^1024 - 2^970, half way from the largest finite binary64 to 2^1024: the
\* values from here on round to infinity (the tie goes to the even 2^1024)
FloatOverflow ==
    Decimal("179769313486231580793728971405303415079934132710037826936173778980444968292764750946649017977587207096330286416692887910946555547851940402630657488671505820681908902000708383676273854845817711531764475730270069855571366959622842914819860834936475292719074168444365510704342711559699508093042880177904174497792").int

\* num / den >= 2^1024 - 2^970, told by the digit counts where they suffice
Overflows(num, den) ==
    IF Len(num) - Len(den) >= Len(FloatOverflow) + 1 THEN TRUE
    ELSE IF Len(num) - Len(den) <= Len(FloatOverflow) - 2 THEN FALSE
    ELSE NatCmp(num, IF den = NatShift(<<1>>, Len(den) - 1)
                     THEN NatShift(FloatOverflow, Len(den) - 1)
                     ELSE NatMul(den, FloatOverflow)) >= 0

\* the same value at the largest exponent <= 0 that holds it
DecNormal(d) ==
    LET \* the number of zeros that end s, which has a digit other than 0
        TrailingZeros(s) ==
            Len(s) - (CHOOSE k \in 1..Len(s) :
                          s[k] /= 0 /\ \A j \in (k + 1)..Len(s) : s[j] = 0)

        \* v with the n last digits of its coefficient, all zeros, dropped
        DropZeros(v, n) ==
            Dec(v.sign, SubSeq(v.int, 1, Len(v.int) - n), v.exp + n)
    IN  IF DecIsZero(d) THEN Dec(d.sign, <<0>>, 0)
        ELSE DropZeros(d, Max(0, Min(TrailingZeros(d.int), -d.exp)))

\* a^n by squaring
RECURSIVE NatPower(_, _)
NatPower(a, n) ==
    LET \* one step of the square-and-multiply power: h is a^(n \div 2)
        SquareStep(x, h, odd) ==
            Having(h, IF odd THEN NatMul(x, NatMul(h, h)) ELSE NatMul(h, h))
    IN  IF n = 0 THEN <<1>> ELSE SquareStep(a, NatPower(a, n \div 2), n % 2 = 1)

\* the rounded quotient times 2^k
FloatRounded(sign, dm, den, k) ==
    LET \* q * 2^e as a decimal, given p = 2^e for e >= 0 and p = 5^-e for
        \* e < 0, where 2^e = 5^-e * 10^e
        FloatValue(sg, q, p, e) ==
            Having(p, Having(q, DecNormal(Dec(sg, NatMul(q, p), Min(e, 0)))))

        \* round-half-even: c compares twice the remainder with the divisor
        RoundsToNext(q, c) == c > 0 \/ (c = 0 /\ q[Len(q)] % 2 = 1)

        \* the quotient qr.q with remainder qr.r of a division by the number
        \* by, rounded to the nearest integer, ties to even
        NearestInteger(qr, by) ==
            IF RoundsToNext(qr.q, NatCmp(NatMul(qr.r, <<2>>), by))
            THEN NatAdd(qr.q, <<1>>) ELSE qr.q
    IN  Having(dm, FloatValue(sign, NearestInteger(dm, den),
                              IF k >= 0 THEN NatPower(<<2>>, k)
                              ELSE NatPower(<<5>>, -k),
                              k))

\* num / den rounded to the nearest integer, times 2^k
FloatDivided(sign, num, den, k) ==
    Having(num, Having(den, FloatRounded(sign, NatDivMod(num, den), den, k)))

\* the least e in lo..hi with num / den < 2^e, which holds at hi
RECURSIVE BinaryExponent(_, _, _, _)
BinaryExponent(num, den, lo, hi) ==
    LET \* n / d < 2^e
        BelowTwoTo(n, d, e) ==
            IF e >= 0 THEN NatCmp(n, NatMul(d, NatPower(<<2>>, e))) < 0
            ELSE NatCmp(NatMul(n, NatPower(<<2>>, -e)), d) < 0
    IN  IF lo = hi THEN lo
        ELSE IF BelowTwoTo(num, den, (lo + hi) \div 2)
             THEN BinaryExponent(num, den, lo, (lo + hi) \div 2)
             ELSE BinaryExponent(num, den, (lo + hi) \div 2 + 1, hi)

\* num / den / 2^k rounded to the nearest integer, times 2^k, given
\* p = 2^|k|
FloatAt(sign, num, den, p, k) ==
    Having(p, IF k >= 0 THEN FloatDivided(sign, num, NatMul(den, p), k)
              ELSE FloatDivided(sign, NatMul(num, p), den, k))

\* the binary64 of num / den whose exponent is k
FloatWith(sign, num, den, k) ==
    Having(k, FloatAt(sign, num, den,
                      NatPower(<<2>>, IF k >= 0 THEN k ELSE -k), k))

\* the binary64 nearest to num / den > 0: 53 significant bits, the exponent
\* k not below -1074, that of the subnormals; an infinity on overflow
FloatNearest(sign, num, den) ==
    LET \* bounds on the binary exponent of a value between 10^(a - 1) and
        \* 10^(a + 1): 2^3 < 10 < 2^4
        ExponentFloor(a) == IF a >= 1 THEN 3 * (a - 1) ELSE 4 * (a - 1)

        ExponentCeiling(a) == IF a >= -1 THEN 4 * (a + 1) ELSE 3 * (a + 1)
    IN  IF Overflows(num, den) THEN Infinity(sign)
        ELSE FloatWith(sign, num, den,
                       Max(-1074, BinaryExponent(num, den,
                           ExponentFloor(Len(num) - Len(den)),
                           ExponentCeiling(Len(num) - Len(den)))
                                  - 53))

\* the binary64 nearest to the decimal d; inf for an infinity and nan, which
\* has no payload, for a NaN
FloatOf(d) ==
    IF IsInfinite(d) THEN d
    ELSE IF IsNaN(d) THEN NaN(d.sign, <<>>, FALSE)
    ELSE IF DecIsZero(d) THEN Dec(d.sign, <<0>>, 0)
    ELSE FloatNearest(d.sign,
                      IF d.exp >= 0 THEN NatShift(d.int, d.exp) ELSE d.int,
                      IF d.exp >= 0 THEN <<1>> ELSE NatShift(<<1>>, -d.exp))

\* an underscore of the text s that does not stand between two digits
BadUnderscore(s) ==
    \E i \in 1..Len(s) :
        /\ CharAt(s, i) = "_"
        /\ \/ i = 1 \/ i = Len(s)
           \/ ~IsDigitChar(CharAt(s, i - 1))
           \/ ~IsDigitChar(CharAt(s, i + 1))

\* the text that float() reads: stripped of its own whitespace, and without
\* the underscores
FloatClean(s) == Without(Strip(s, FloatSpace), "_")

\* float(text) raises ValueError unless the text, stripped, is a number, an
\* infinity or nan; a NaN with a payload and an sNaN are no float literals
FloatRaises(s) ==
    \/ BadUnderscore(Strip(s, FloatSpace))
    \/ /\ ~IsNumberText(Unsigned(FloatClean(s)))
       /\ ~IsInfText(Unsigned(FloatClean(s)))
       /\ ~Spells(Unsigned(FloatClean(s)), "nan")

\* float(text) of a literal: the nearest binary64
float(s) == FloatOf(Decimal(s))

(***************************************************************************)
(* The functions of hl_purr_to_perps.py.                                   *)
(***************************************************************************)
\* Python's None, here the option that was not given; an option given as
\* the text t is <<t>>, so that no text is None
None == <<>>

Given(t) == <<t>>

\* the text of an option that was given
TextOf(option) == option[1]

\* d.get(k, default) of a Python dict, here a record
Get(d, k, default) == IF k \in DOMAIN d THEN d[k] ELSE default

\* x.get(k) == v, which is False when x has no key k
HasValue(x, k, v) == k \in DOMAIN x /\ x[k] = v

\* the first index of seq whose element has the value v under key k, 0 when
\* there is none: for x in seq: if x.get(k) == v
FirstIndex(seq, k, v) ==
    IF \E i \in 1..Len(seq) : HasValue(seq[i], k, v)
    THEN CHOOSE i \in 1..Len(seq) :
             /\ HasValue(seq[i], k, v)
             /\ \A j \in 1..(i - 1) : ~HasValue(seq[j], k, v)
    ELSE 0

\* the universe entry at index i, numbered by its place in the listing
PairAtPosition(universe, i) ==
    IF i = 0 THEN [found |-> FALSE, id |-> 0]
    ELSE [found |-> TRUE, id |-> 10000 + i]

\* the universe entry at index i, 0 for none
PairAt(universe, i) ==
    IF i = 0 THEN [found |-> FALSE, id |-> 0]
    ELSE [found |-> TRUE, id |-> 10000 + universe[i].index]

\* find_pair_asset_id: 10000 + index of the first universe entry of that
\* name; found = FALSE is the RuntimeError
find_pair_asset_id(meta, pair) ==
    PairAt(Get(meta, "universe", <<>>),
           FirstIndex(Get(meta, "universe", <<>>), "name", pair))

\* the tokens entry at index i, 0 for none
TokenAt(tokens, i) ==
    IF i = 0 THEN [found |-> FALSE, sz |-> 0, wei |-> 0]
    ELSE [found |-> TRUE, sz |-> tokens[i].szDecimals,
          wei |-> tokens[i].weiDecimals]

\* token_decimals: (szDecimals, weiDecimals) of the first token of that name;
\* found = FALSE is the RuntimeError
token_decimals(meta, token) ==
    TokenAt(Get(meta, "tokens", <<>>),
            FirstIndex(Get(meta, "tokens", <<>>), "name", token))

\* line 96 for the texts total and hold: the exception it raises, "" for
\* none: InvalidOperation from Decimal() of a text that is no literal, then
\* what the subtraction raises
FreeError(total, hold) ==
    IF DecimalRaises(total) \/ DecimalRaises(hold) THEN "InvalidOperation"
    ELSE SubError(Decimal(total), Decimal(hold))

\* the exception that line 96 raises for the balance record at index i, ""
\* for none and when there is no record
FreeAtError(balances, i) ==
    IF i = 0 THEN ""
    ELSE FreeError(Get(balances[i], "total", "0"), Get(balances[i], "hold", "0"))

\* total - hold of the balance record at index i, Decimal("0") for none
FreeAt(balances, i) ==
    IF i = 0 THEN Decimal("0")
    ELSE DecSub(Decimal(Get(balances[i], "total", "0")),
                Decimal(Get(balances[i], "hold", "0")))

\* the exception that get_spot_balance raises at line 96 for the
\* spotClearinghouseState response, "" when it returns
get_spot_balance_error(response, token) ==
    FreeAtError(Get(response, "balances", <<>>),
                FirstIndex(Get(response, "balances", <<>>), "coin", token))

\* get_spot_balance, applied to the spotClearinghouseState response: total -
\* hold of the first record of that coin, Decimal("0") when there is none
get_spot_balance(response, token) ==
    FreeAt(Get(response, "balances", <<>>),
           FirstIndex(Get(response, "balances", <<>>), "coin", token))

\* the base of the step at lines 104, 246 and 267: Decimal(8) ** (-decimals)
StepBase == 8

\* what (x // q) * q raises, "" for none
FlooredError(x, q) ==
    IF FloorDivError(x, q) /= "" THEN FloorDivError(x, q)
    ELSE MulError(DecFloorDiv(x, q), q)

\* (x // q) * q: x floored to the step q
FlooredTo(x, q) == DecMul(DecFloorDiv(x, q), q)

\* round_size: str of sz floored to the step (sz // q) * q, or of int(sz)
\* when sz_decimals is 0
round_size(sz, sz_decimals) ==
    IF sz_decimals = 0 THEN DecIntStr(sz)
    ELSE DecStr(FlooredTo(sz, DecPowNeg(StepBase, sz_decimals)))

\* the exception that round_size raises, "" for none: at line 103 ValueError
\* or OverflowError from str(int(sz)), at line 105 InvalidOperation
\* (DivisionImpossible) from sz // q
round_size_error(sz, sz_decimals) ==
    IF sz_decimals = 0 THEN IntStrError(sz)
    ELSE FlooredError(sz, DecPowNeg(StepBase, sz_decimals))

round_size_raises(sz, sz_decimals) == round_size_error(sz, sz_decimals) /= ""

\* the balance guard with < for <=
NoBalanceStrict(free) == DecCmp(free, Decimal("0")) < 0

\* lines 218, 240, 262: free <= 0, for a free that is not a NaN
NoBalance(free) == DecCmp(free, Decimal("0")) <= 0

\* lines 218, 240, 262 raise InvalidOperation for a NaN
NoBalanceRaises(free) == CmpRaises(free, Decimal("0"))

\* lines 221, 243, 265: min(amount, free) raises InvalidOperation when the
\* amount given or free is a NaN
MinRaises(amount, free) ==
    amount /= None /\ CmpRaises(free, Decimal(TextOf(amount)))

\* lines 220-222: purr_free, or min(args.purr_amount, purr_free), which is
\* purr_free when purr_free < args.purr_amount
SellAmount(purr_amount, purr_free) ==
    IF purr_amount = None THEN purr_free
    ELSE IF DecCmp(purr_free, Decimal(TextOf(purr_amount))) < 0 THEN purr_free
    ELSE Decimal(TextOf(purr_amount))

\* the size guard with < for <=
SizeNegative(purr_size_str) == DecCmp(Decimal(purr_size_str), Decimal("0")) < 0

\* line 224: Decimal(purr_size_str) <= 0
SizeNotPositive(purr_size_str) == DecCmp(Decimal(purr_size_str), Decimal("0")) <= 0

\* lines 242-244 and 264-266: usdc_free, or min(args.usdc_amount, usdc_free)
TransferAmount(usdc_amount, usdc_free) ==
    IF usdc_amount = None THEN usdc_free
    ELSE IF DecCmp(usdc_free, Decimal(TextOf(usdc_amount))) < 0 THEN usdc_free
    ELSE Decimal(TextOf(usdc_amount))

\* lines 246 and 267
UsdcTick(usdc_wei_decimals) == DecPowNeg(StepBase, usdc_wei_decimals)

\* lines 248-249 and 269-270: a negative safe_amount becomes Decimal("0")
ClampToZero(safe_amount) ==
    IF DecCmp(safe_amount, Decimal("0")) < 0 THEN Decimal("0") ELSE safe_amount

\* lines 247-249 and 268-270: floor to the tick, less one tick, not below 0
SafeAmount(usdc_to_xfer, usdc_tick) ==
    ClampToZero(DecSub(FlooredTo(usdc_to_xfer, usdc_tick), usdc_tick))

\* what lines 247 and 268 raise, "" for none; the amount is no NaN here, so
\* that the comparison of lines 248 and 269 does not raise
SafeAmountError(usdc_to_xfer, usdc_tick) ==
    IF FlooredError(usdc_to_xfer, usdc_tick) /= ""
    THEN FlooredError(usdc_to_xfer, usdc_tick)
    ELSE SubError(FlooredTo(usdc_to_xfer, usdc_tick), usdc_tick)

\* lines 250 and 271: str(safe_amount.quantize(usdc_tick, rounding=ROUND_DOWN))
AmountStr(safe_amount, usdc_tick) == DecStr(DecQuantizeDown(safe_amount, usdc_tick))

\* the transfer computation raises when //, * or - does, or quantize
TransferRaises(usdc_to_xfer, safe_amount, usdc_tick) ==
    \/ SafeAmountError(usdc_to_xfer, usdc_tick) /= ""
    \/ QuantizeRaises(safe_amount, usdc_tick)

\* line 111: float(slippage_bps) / 10000.0, the binary64 nearest to the
\* quotient (float() of an int below 2^53 is exact, and / rounds once)
Slippage(slippage_bps) ==
    FloatOf(Dec(IF slippage_bps < 0 THEN 1 ELSE 0,
                NatOfInt(IF slippage_bps < 0 THEN -slippage_bps ELSE slippage_bps),
                -4))

\* lines 112-117: what place_spot_ioc_sell hands to exchange.market_open
SellOrder(pair, size_str, slippage_bps) ==
    [op |-> "sell", name |-> pair, is_buy |-> FALSE, sz |-> float(size_str),
     slippage |-> Slippage(slippage_bps)]

\* line 128: what usd_class_transfer hands to exchange.usd_class_transfer
ClassTransfer(amount_usdc, to_perp) ==
    [op |-> "transfer", amount |-> float(amount_usdc), to_perp |-> to_perp]

\* line 139: what withdraw3 hands to exchange.withdraw_from_bridge
BridgeWithdrawal(amount_usdc, destination) ==
    [op |-> "withdraw", amount |-> float(amount_usdc),
     destination |-> destination]

\* line 280: not args.dest, for an option not given or given as ""
DestMissing(dest) == dest = None \/ TextOf(dest) = ""

\* lines 284-286: the withdrawal amount at the fixed step 0.00000001
WithdrawStep == Decimal("0.00000001")

WithdrawAmountStr(usdc_amount) ==
    DecStr(DecQuantizeDown(Decimal(TextOf(usdc_amount)), WithdrawStep))

WithdrawRaises(usdc_amount) ==
    QuantizeRaises(Decimal(TextOf(usdc_amount)), WithdrawStep)

(***************************************************************************)
(* The run: main(), one action per venue call or blocking step, each with  *)
(* the computation that follows it up to the next call.                    *)
(***************************************************************************)
VARIABLES
    pc,                \* where main() stands
    args,              \* the parsed command line (lines 146-179): the mode,
                       \* and each option as None or the text it was read
                       \* from (an amount is the Decimal of its text)
    env_ok,            \* HL_ACCOUNT_ADDRESS and HL_SECRET_KEY are both set
    meta,              \* the spotMeta snapshot (line 201)
    purr_sz_decimals,  \* line 208
    usdc_wei_decimals, \* line 209
    pair_asset_id,     \* line 210
    state,             \* the last spotClearinghouseState response (line 91)
    purr_free,         \* line 217
    purr_to_sell,      \* line 220
    purr_size_str,     \* line 223
    usdc_free,         \* lines 239, 261
    usdc_to_xfer,      \* lines 242, 264
    safe_amount,       \* lines 247-249, 268-270
    amount_str,        \* lines 250, 271, 284
    calls,             \* every venue call and blocking step made, in order
    submitted,         \* what was handed to the signing helpers, in order
    exit_msg           \* "" while running and on normal return, else the
                       \* sys.exit message or the exception that ended the run

vars == <<pc, args, env_ok, meta, purr_sz_decimals, usdc_wei_decimals,
          pair_asset_id, state, purr_free, purr_to_sell, purr_size_str,
          usdc_free, usdc_to_xfer, safe_amount, amount_str, calls, submitted,
          exit_msg>>

\* the largest szDecimals / weiDecimals a metadata snapshot lists
MaxDecimals == 2

\* balances are drawn from 0, 0.05, ..., MaxUnits * 0.05 and a few more
MaxUnits == 5

\* lines 203-205: PAIR_NAME, BASE_TOKEN, QUOTE_TOKEN of the environment
pair_name == "PURR/USDC"

base_token == "PURR"

quote_token == "USDC"

\* lines 148-171: the options of a command line; an option not given is None
CommandLine(mode, purr_amount, usdc_amount, dest, slippage_bps) ==
    [mode |-> mode, purr_amount |-> purr_amount, usdc_amount |-> usdc_amount,
     dest |-> dest, slippage_bps |-> slippage_bps]

PurrAmounts == {None, Given("0.2")}

\* --usdc-amount: not given, amounts, and a NaN, which Decimal() reads
UsdcAmounts == {None, Given("0.2"), Given("-1"), Given("NaN")}

\* --usdc-amount of a withdrawal: also amounts finer than the fixed step and a
\* NaN with a payload
WithdrawAmounts ==
    UsdcAmounts \cup {Given("0.123456789"), Given("-0.123456789"), Given("NaN1")}

\* --dest: not given, empty, an address, and the text None
Dests == {None, Given(""), Given("0xD"), Given("None")}

\* --slippage-bps: the default of line 175 and another cushion
SlippageBps == {30, 125}

\* the command lines explored: each mode with the options it reads
CommandLines ==
    {CommandLine("sell_and_transfer", p, u, None, b) :
        p \in PurrAmounts, u \in UsdcAmounts, b \in SlippageBps}
    \cup {CommandLine("transfer_only", None, u, None, 30) : u \in UsdcAmounts}
    \cup {CommandLine("withdraw", None, u, d, 30) :
              u \in WithdrawAmounts, d \in Dests}

\* a snapshot listing both tokens and the pair
Meta(sd, wd) ==
    [universe |-> << [name |-> "HYPE/USDC", index |-> 0],
                     [name |-> pair_name, index |-> 1] >>,
     tokens   |-> << [name |-> quote_token, szDecimals |-> 8, weiDecimals |-> wd],
                     [name |-> base_token, szDecimals |-> sd, weiDecimals |-> 5] >>]

\* the snapshots the venue may answer with: both tokens at d decimals, the
\* base token at 0 with the quote token at 8, one that lacks the base token
\* and one that lacks the pair
Metas ==
    {Meta(d, d) : d \in 0..MaxDecimals}
    \cup {Meta(0, 8),
          [Meta(0, 8) EXCEPT !.tokens = <<Meta(0, 8).tokens[1]>>],
          [Meta(0, 8) EXCEPT !.universe = <<Meta(0, 8).universe[1]>>]}

\* the totals of a balance record: small amounts, amounts of many digits
\* (one of more than prec), large exponents (one beyond Emax, one whose
\* int() is longer than MaxStrDigits), an infinity, a NaN, the text of a
\* JSON null, and an amount between a vertical tab (U+000B) and a unit
\* separator (U+001F), which Decimal() strips
Totals ==
    {DecStr(Dec(0, NatOfInt(5 * k), -2)) : k \in 0..MaxUnits}
    \cup {"123.7", "50.00000003", "50000.5", "9007199254740995",
          "12345678901234567890123456789", "1E+400", "1E+4300", "1E+1000000",
          "Infinity", "NaN", "None", "7"}

Balance(coin, total, hold) == [coin |-> coin, total |-> total, hold |-> hold]

\* the balance responses the venue may answer with: both tokens at the same
\* total, then no record, a record with a hold, a hold above the total, a
\* second record of the same coin, and a record of another coin first
BalanceResponses ==
    {[balances |-> <<Balance(base_token, t, "0"), Balance(quote_token, t, "0")>>] :
        t \in Totals}
    \cup {[balances |-> <<>>],
          [balances |-> <<Balance(base_token, "0.3", "0.05"),
                          Balance(quote_token, "0.3", "0.05")>>],
          [balances |-> <<Balance(base_token, "0.05", "0.1"),
                          Balance(quote_token, "0.05", "0.1")>>],
          [balances |-> <<Balance(quote_token, "2", "0"), Balance(base_token, "3", "0"),
                          Balance(quote_token, "9", "0"), Balance(base_token, "9", "0")>>],
          [balances |-> <<Balance("HYPE", "7", "0")>>]}

\* a Decimal local not yet assigned
Unset == Dec(0, <<>>, 0)

Init ==
    /\ pc = "start"
    /\ args \in CommandLines
    /\ env_ok \in BOOLEAN
    /\ meta = [universe |-> <<>>, tokens |-> <<>>]
    /\ purr_sz_decimals = -1
    /\ usdc_wei_decimals = -1
    /\ pair_asset_id = -1
    /\ state = [balances |-> <<>>]
    /\ purr_free = Unset
    /\ purr_to_sell = Unset
    /\ purr_size_str = ""
    /\ usdc_free = Unset
    /\ usdc_to_xfer = Unset
    /\ safe_amount = Unset
    /\ amount_str = ""
    /\ calls = <<>>
    /\ submitted = <<>>
    /\ exit_msg = ""

\* lines 181-186: the credentials, or sys.exit
CheckEnv ==
    /\ pc = "start"
    /\ pc' = IF env_ok THEN "meta" ELSE "done"
    /\ exit_msg' = IF env_ok THEN ""
                   ELSE "Set HL_ACCOUNT_ADDRESS and HL_SECRET_KEY in your environment."
    /\ UNCHANGED <<args, env_ok, meta, purr_sz_decimals, usdc_wei_decimals,
                   pair_asset_id, state, purr_free, purr_to_sell, purr_size_str,
                   usdc_free, usdc_to_xfer, safe_amount, amount_str, calls,
                   submitted>>

\* lines 200-201: info.spot_meta(); _post raises on a timeout or a
\* non-success response (lines 37-38)
FetchMeta ==
    /\ pc = "meta"
    /\ calls' = Append(calls, "spotMeta")
    /\ \E ok \in BOOLEAN, m \in Metas :
        /\ meta' = IF ok THEN m ELSE meta
        /\ pc' = IF ok THEN "resolve" ELSE "done"
        /\ exit_msg' = IF ok THEN "" ELSE "HTTPError"
    /\ UNCHANGED <<args, env_ok, purr_sz_decimals, usdc_wei_decimals,
                   pair_asset_id, state, purr_free, purr_to_sell, purr_size_str,
                   usdc_free, usdc_to_xfer, safe_amount, amount_str, submitted>>

\* the decimals and the asset id taken from a snapshot fetched a second time
ResolveRefetch ==
    /\ pc = "resolve"
    /\ calls' = Append(calls, "spotMeta")
    /\ LET b  == token_decimals(meta, base_token)
           q  == token_decimals(meta, quote_token)
           p  == find_pair_asset_id(meta, pair_name)
           ok == b.found /\ q.found /\ p.found
       IN  /\ purr_sz_decimals' = IF b.found THEN b.sz ELSE purr_sz_decimals
           /\ usdc_wei_decimals' = IF b.found /\ q.found THEN q.wei
                                   ELSE usdc_wei_decimals
           /\ pair_asset_id' = IF ok THEN p.id ELSE pair_asset_id
           /\ pc' = IF ok THEN "build" ELSE "done"
           /\ exit_msg' = IF ok THEN "" ELSE "RuntimeError"
    /\ UNCHANGED <<args, env_ok, meta, state, purr_free, purr_to_sell,
                   purr_size_str, usdc_free, usdc_to_xfer, safe_amount,
                   amount_str, submitted>>

\* lines 203-210: the decimals of both tokens and the pair's asset id, each
\* a RuntimeError when absent from the snapshot
Resolve ==
    /\ pc = "resolve"
    /\ LET b  == token_decimals(meta, base_token)
           q  == token_decimals(meta, quote_token)
           p  == find_pair_asset_id(meta, pair_name)
           ok == b.found /\ q.found /\ p.found
       IN  /\ purr_sz_decimals' = IF b.found THEN b.sz ELSE purr_sz_decimals
           /\ usdc_wei_decimals' = IF b.found /\ q.found THEN q.wei
                                   ELSE usdc_wei_decimals
           /\ pair_asset_id' = IF ok THEN p.id ELSE pair_asset_id
           /\ pc' = IF ok THEN "build" ELSE "done"
           /\ exit_msg' = IF ok THEN "" ELSE "RuntimeError"
    /\ UNCHANGED <<args, env_ok, meta, state, purr_free, purr_to_sell,
                   purr_size_str, usdc_free, usdc_to_xfer, safe_amount,
                   amount_str, calls, submitted>>

\* lines 213 and 58-60: build_exchange, the constructor of the hyperliquid
\* package's Exchange, which is not part of this repository: it returns the
\* client or raises; what it asks of the venue on its own is not among calls
BuildExchange ==
    /\ pc = "build"
    /\ \E ok \in BOOLEAN :
        /\ pc' = IF ok THEN "mode" ELSE "done"
        /\ exit_msg' = IF ok THEN "" ELSE "ExchangeError"
    /\ UNCHANGED <<args, env_ok, meta, purr_sz_decimals, usdc_wei_decimals,
                   pair_asset_id, state, purr_free, purr_to_sell, purr_size_str,
                   usdc_free, usdc_to_xfer, safe_amount, amount_str, calls,
                   submitted>>

\* lines 215-225: read the base balance and size the sell; the run ends
\* with the exception of line 96, 218, 221 or 223, or with the sys.exit of
\* line 219 or 225
SellReadBalance ==
    /\ pc = "mode"
    /\ args.mode = "sell_and_transfer"
    /\ calls' = Append(calls, "spotClearinghouseState")
    /\ \E ok \in BOOLEAN, resp \in BalanceResponses :
       \E read \in {ok /\ get_spot_balance_error(resp, base_token) = ""} :
       \E free \in {IF read THEN get_spot_balance(resp, base_token)
                    ELSE purr_free} :
       \E compared \in {read /\ ~NoBalanceRaises(free)} :
       \E has \in {compared /\ ~NoBalance(free)} :
       \E chosen \in {has /\ ~MinRaises(args.purr_amount, free)} :
       \E to_sell \in {IF chosen THEN SellAmount(args.purr_amount, free)
                       ELSE purr_to_sell} :
       \E sized \in {chosen /\ ~round_size_raises(to_sell, purr_sz_decimals)} :
       \E size \in {IF sized THEN round_size(to_sell, purr_sz_decimals)
                    ELSE purr_size_str} :
       \E positive \in {sized /\ ~SizeNotPositive(size)} :
            /\ state' = IF ok THEN resp ELSE state
            /\ purr_free' = free
            /\ purr_to_sell' = to_sell
            /\ purr_size_str' = size
            /\ pc' = IF positive THEN "sell" ELSE "done"
            /\ exit_msg' =
                 IF ~ok THEN "HTTPError"
                 ELSE IF ~read THEN get_spot_balance_error(resp, base_token)
                 ELSE IF ~compared THEN "InvalidOperation"
                 ELSE IF ~has THEN "No PURR available on Spot."
                 ELSE IF ~chosen THEN "InvalidOperation"
                 ELSE IF ~sized THEN round_size_error(to_sell, purr_sz_decimals)
                 ELSE IF ~positive
                      THEN "Computed PURR size <= 0 after rounding. Aborting."
                 ELSE ""
    /\ UNCHANGED <<args, env_ok, meta, purr_sz_decimals, usdc_wei_decimals,
                   pair_asset_id, usdc_free, usdc_to_xfer, safe_amount,
                   amount_str, submitted>>

\* the sell submitted again after a failed submission
PlaceSellRetry ==
    /\ pc = "sell"
    /\ calls' = Append(calls, "order")
    /\ submitted' = Append(submitted,
                           SellOrder(pair_name, purr_size_str, args.slippage_bps))
    /\ \E ok \in BOOLEAN :
        /\ pc' = IF ok THEN "sleep" ELSE "sell"
        /\ exit_msg' = IF ok THEN "" ELSE "HTTPError"
    /\ UNCHANGED <<args, env_ok, meta, purr_sz_decimals, usdc_wei_decimals,
                   pair_asset_id, state, purr_free, purr_to_sell, purr_size_str,
                   usdc_free, usdc_to_xfer, safe_amount, amount_str>>

\* lines 231-234 and 108-117: place_spot_ioc_sell, which hands the order to
\* exchange.market_open with the size as a float; the size is the str of an
\* int, of a finite Decimal or of Infinity, which float() reads
PlaceSell ==
    /\ pc = "sell"
    /\ calls' = Append(calls, "order")
    /\ submitted' = Append(submitted,
                           SellOrder(pair_name, purr_size_str, args.slippage_bps))
    /\ \E ok \in BOOLEAN :
        /\ pc' = IF ok THEN "sleep" ELSE "done"
        /\ exit_msg' = IF ok THEN "" ELSE "HTTPError"
    /\ UNCHANGED <<args, env_ok, meta, purr_sz_decimals, usdc_wei_decimals,
                   pair_asset_id, state, purr_free, purr_to_sell, purr_size_str,
                   usdc_free, usdc_to_xfer, safe_amount, amount_str>>

\* the quote balance read straight after the sell, without the delay
SleepOmitted ==
    /\ pc = "sleep"
    /\ pc' = "xfer_read"
    /\ UNCHANGED <<args, env_ok, meta, purr_sz_decimals, usdc_wei_decimals,
                   pair_asset_id, state, purr_free, purr_to_sell, purr_size_str,
                   usdc_free, usdc_to_xfer, safe_amount, amount_str, calls,
                   submitted, exit_msg>>

\* line 236: time.sleep(1.2)
Sleep ==
    /\ pc = "sleep"
    /\ calls' = Append(calls, "sleep")
    /\ pc' = "xfer_read"
    /\ UNCHANGED <<args, env_ok, meta, purr_sz_decimals, usdc_wei_decimals,
                   pair_asset_id, state, purr_free, purr_to_sell, purr_size_str,
                   usdc_free, usdc_to_xfer, safe_amount, amount_str, submitted,
                   exit_msg>>

\* lines 239-250 and 261-271: read the quote balance and quantize the
\* transfer; no_usdc is the sys.exit message of the mode; the run ends with
\* the exception of line 96, of the comparison, of min(), of line 247 / 268
\* (safe_amount is assigned when that line has not raised) or of quantize
ReadQuote(no_usdc) ==
    /\ calls' = Append(calls, "spotClearinghouseState")
    /\ \E ok \in BOOLEAN, resp \in BalanceResponses :
       \E read \in {ok /\ get_spot_balance_error(resp, quote_token) = ""} :
       \E free \in {IF read THEN get_spot_balance(resp, quote_token)
                    ELSE usdc_free} :
       \E compared \in {read /\ ~NoBalanceRaises(free)} :
       \E has \in {compared /\ ~NoBalance(free)} :
       \E chosen \in {has /\ ~MinRaises(args.usdc_amount, free)} :
       \E to_xfer \in {IF chosen THEN TransferAmount(args.usdc_amount, free)
                       ELSE usdc_to_xfer} :
       \E usdc_tick \in {UsdcTick(usdc_wei_decimals)} :
       \E floored \in {chosen /\ SafeAmountError(to_xfer, usdc_tick) = ""} :
       \E safe \in {IF floored THEN SafeAmount(to_xfer, usdc_tick)
                    ELSE safe_amount} :
       \E done \in {floored /\ ~QuantizeRaises(safe, usdc_tick)} :
            /\ state' = IF ok THEN resp ELSE state
            /\ usdc_free' = free
            /\ usdc_to_xfer' = to_xfer
            /\ safe_amount' = safe
            /\ amount_str' = IF done THEN AmountStr(safe, usdc_tick)
                             ELSE amount_str
            /\ pc' = IF done THEN "xfer" ELSE "done"
            /\ exit_msg' =
                 IF ~ok THEN "HTTPError"
                 ELSE IF ~read THEN get_spot_balance_error(resp, quote_token)
                 ELSE IF ~compared THEN "InvalidOperation"
                 ELSE IF ~has THEN no_usdc
                 ELSE IF ~chosen THEN "InvalidOperation"
                 ELSE IF ~floored THEN SafeAmountError(to_xfer, usdc_tick)
                 ELSE IF ~done THEN "InvalidOperation"
                 ELSE ""
    /\ UNCHANGED <<args, env_ok, meta, purr_sz_decimals, usdc_wei_decimals,
                   pair_asset_id, purr_free, purr_to_sell, purr_size_str,
                   submitted>>

\* lines 238-250, after the sell and the sleep
SellReadQuote ==
    /\ pc = "xfer_read"
    /\ ReadQuote("No USDC on Spot after sell (order may not have filled).")

\* the transfer branch taken by every mode but sell_and_transfer
TransferReadQuoteElse ==
    /\ pc = "mode"
    /\ args.mode /= "sell_and_transfer"
    /\ ReadQuote("No USDC available on Spot.")

\* lines 259-271
TransferReadQuote ==
    /\ pc = "mode"
    /\ args.mode = "transfer_only"
    /\ ReadQuote("No USDC available on Spot.")

\* lines 252-257, 273-277 and 120-128: usd_class_transfer, which hands the
\* amount to exchange.usd_class_transfer as a float; the amount is the str
\* of a finite Decimal, which float() reads
SubmitTransfer ==
    /\ pc = "xfer"
    /\ calls' = Append(calls, "usdClassTransfer")
    /\ submitted' = Append(submitted, ClassTransfer(amount_str, TRUE))
    /\ \E ok \in BOOLEAN :
        /\ pc' = "done"
        /\ exit_msg' = IF ok THEN "" ELSE "HTTPError"
    /\ UNCHANGED <<args, env_ok, meta, purr_sz_decimals, usdc_wei_decimals,
                   pair_asset_id, state, purr_free, purr_to_sell, purr_size_str,
                   usdc_free, usdc_to_xfer, safe_amount, amount_str>>

\* lines 279-286: the withdraw parameters, then the amount at the fixed step
WithdrawCheck ==
    /\ pc = "mode"
    /\ args.mode = "withdraw"
    /\ \E ready \in {~DestMissing(args.dest) /\ args.usdc_amount /= None} :
       \E done \in {ready /\ ~WithdrawRaises(args.usdc_amount)} :
           /\ amount_str' = IF done THEN WithdrawAmountStr(args.usdc_amount)
                            ELSE amount_str
           /\ pc' = IF done THEN "withdraw" ELSE "done"
           /\ exit_msg' =
                IF DestMissing(args.dest)
                THEN "--dest is required for withdraw mode (Arbitrum address)"
                ELSE IF args.usdc_amount = None
                     THEN "--usdc-amount is required for withdraw mode"
                ELSE IF ~done THEN "InvalidOperation"
                ELSE ""
    /\ UNCHANGED <<args, env_ok, meta, purr_sz_decimals, usdc_wei_decimals,
                   pair_asset_id, state, purr_free, purr_to_sell, purr_size_str,
                   usdc_free, usdc_to_xfer, safe_amount, calls, submitted>>

\* lines 287-289 and 131-139: withdraw3, which hands the amount to
\* exchange.withdraw_from_bridge as a float; float() raises ValueError for
\* the str of a NaN with a payload, before the call is made
SubmitWithdraw ==
    /\ pc = "withdraw"
    /\ pc' = "done"
    /\ IF FloatRaises(amount_str)
       THEN /\ exit_msg' = "ValueError"
            /\ UNCHANGED <<calls, submitted>>
       ELSE /\ calls' = Append(calls, "withdraw3")
            /\ submitted' = Append(submitted,
                                   BridgeWithdrawal(amount_str, TextOf(args.dest)))
            /\ \E ok \in BOOLEAN : exit_msg' = IF ok THEN "" ELSE "HTTPError"
    /\ UNCHANGED <<args, env_ok, meta, purr_sz_decimals, usdc_wei_decimals,
                   pair_asset_id, state, purr_free, purr_to_sell, purr_size_str,
                   usdc_free, usdc_to_xfer, safe_amount, amount_str>>

Next ==
    \/ CheckEnv
    \/ FetchMeta
    \/ Resolve
    \/ BuildExchange
    \/ SellReadBalance
    \/ PlaceSell
    \/ Sleep
    \/ SellReadQuote
    \/ TransferReadQuote
    \/ SubmitTransfer
    \/ WithdrawCheck
    \/ SubmitWithdraw

Spec == Init /\ [][Next]_vars

(***************************************************************************)
(* Properties.                                                             *)
(***************************************************************************)
\* 10^-n, the precision unit of an asset with n decimals
Pow10Neg(n) == Dec(0, <<1>>, -n)

\* d is an exact multiple of 10^-n
MultipleOfPow10(d, n) ==
    \/ DecIsZero(d)
    \/ d.special = "" /\ d.exp >= -n
    \/ /\ d.special = ""
       /\ -n - d.exp < Len(d.int)
       /\ \A i \in (Len(d.int) + d.exp + n + 1)..Len(d.int) : d.int[i] = 0

\* x >= 0 floored to a multiple of 10^-n
FloorPow10(x, n) == DecQuantizeDown(x, Pow10Neg(n))

Sells == {i \in 1..Len(submitted) : submitted[i].op = "sell"}

Transfers == {i \in 1..Len(submitted) : submitted[i].op = "transfer"}

\* the balance reads that succeeded
BaseRead == purr_free /= Unset

QuoteRead == usdc_free /= Unset

\* d > 0 and d <= 0, neither of which holds for a NaN
Positive(d) == ~IsNaN(d) /\ DecCmp(d, Decimal("0")) > 0

NotPositive(d) == ~IsNaN(d) /\ DecCmp(d, Decimal("0")) <= 0

\* C1: every sell size handed to the signing helpers is an exact multiple of
\* 10^-szDecimals of the base token, and every transfer amount an exact
\* multiple of 10^-weiDecimals of the quote token
C1_AmountsRespectPrecision ==
    /\ \A i \in Sells :
           MultipleOfPow10(submitted[i].sz, purr_sz_decimals)
    /\ \A i \in Transfers :
           MultipleOfPow10(submitted[i].amount, usdc_wei_decimals)

\* --purr-amount was given and is larger than the free base balance
ExplicitAboveFree ==
    /\ args.purr_amount /= None
    /\ DecCmp(Decimal(TextOf(args.purr_amount)), purr_free) > 0

\* C2: a submitted sell size never exceeds the free base balance read at
\* step 1; when the explicit --purr-amount is larger than that balance, the
\* size is the quantization of the balance, not of the request
C2_SellWithinFree ==
    \A i \in Sells :
        /\ DecCmp(submitted[i].sz, purr_free) <= 0
        /\ ExplicitAboveFree =>
               submitted[i].sz = float(round_size(purr_free, purr_sz_decimals))

\* a sell was submitted for a request above the free balance
C2_Witness == Sells /= {} /\ ExplicitAboveFree

\* min(explicit amount, free quote balance), the free balance when no amount
\* was given
DesiredTransfer ==
    IF args.usdc_amount = None THEN usdc_free
    ELSE IF DecCmp(Decimal(TextOf(args.usdc_amount)), usdc_free) <= 0
         THEN Decimal(TextOf(args.usdc_amount))
    ELSE usdc_free

\* C3: every submitted transfer amount is between 0 and the free quote
\* balance read before it, and when positive it is at most min(explicit, free)
\* floored to a multiple of 10^-weiDecimals less one unit of 10^-weiDecimals
C3_TransferWithinMargin ==
    \A i \in Transfers :
        /\ DecCmp(submitted[i].amount, Decimal("0")) >= 0
        /\ DecCmp(submitted[i].amount, usdc_free) <= 0
        /\ Positive(submitted[i].amount) =>
               DecCmp(submitted[i].amount,
                      DecSub(FloorPow10(DesiredTransfer, usdc_wei_decimals),
                             Pow10Neg(usdc_wei_decimals))) <= 0

\* C4: round_size(x, d) for x >= 0 is at most x, is an exact multiple of
\* 10^-d, and is 0 exactly when x < 10^-d
C4_RoundSize ==
    (purr_size_str /= "" /\ DecCmp(purr_to_sell, Decimal("0")) >= 0) =>
        /\ DecCmp(Decimal(purr_size_str), purr_to_sell) <= 0
        /\ MultipleOfPow10(Decimal(purr_size_str), purr_sz_decimals)
        /\ DecIsZero(Decimal(purr_size_str))
               <=> DecCmp(purr_to_sell, Pow10Neg(purr_sz_decimals)) < 0

\* max(0, d)
AtLeastZero(d) == IF Positive(d) THEN d ELSE Decimal("0")

\* C5: the margin-quantized amount of x >= 0 is at most
\* max(0, x floored to a multiple of 10^-weiDecimals, less 10^-weiDecimals)
C5_MarginQuantized ==
    (/\ args.mode /= "withdraw"
     /\ amount_str /= ""
     /\ DecCmp(usdc_to_xfer, Decimal("0")) >= 0) =>
        DecCmp(Decimal(amount_str),
               AtLeastZero(DecSub(FloorPow10(usdc_to_xfer, usdc_wei_decimals),
                                  Pow10Neg(usdc_wei_decimals)))) <= 0

\* C6: a withdraw run without a destination address makes no network call:
\* no metadata query, no balance query and no submission
C6_NoCallWithoutDest ==
    (args.mode = "withdraw" /\ DestMissing(args.dest)) =>
        calls = <<>> /\ submitted = <<>>

\* the quote balance read after the sell and the delay is <= 0
QuoteEmptyAfterSell ==
    /\ args.mode = "sell_and_transfer"
    /\ QuoteRead
    /\ NotPositive(usdc_free)

\* C7: in sell_and_transfer mode, when the quote balance read after the sell
\* and the delay is <= 0 the run has ended with the no-USDC failure, the
\* sell stays submitted and no transfer is submitted
C7_NoTransferWithoutQuote ==
    QuoteEmptyAfterSell =>
        /\ pc = "done"
        /\ exit_msg = "No USDC on Spot after sell (order may not have filled)."
        /\ Transfers = {}
        /\ Sells = {1}
        /\ calls[Len(calls)] = "spotClearinghouseState"

C7_Witness == QuoteEmptyAfterSell /\ pc = "done" /\ Len(submitted) = 1

\* the sell guards failed: the base balance read is <= 0, or the size
\* computed from it is
SellNotActionable ==
    /\ args.mode = "sell_and_transfer"
    /\ BaseRead
    /\ \/ NotPositive(purr_free)
       \/ purr_size_str /= "" /\ NotPositive(Decimal(purr_size_str))

\* C8: a sell is submitted only with a free base balance > 0 and a quantized
\* size > 0; otherwise the run ends with the failure of the guard after the
\* one balance read, with nothing submitted; the size is never above the
\* amount it was computed from
C8_SellGuards ==
    /\ \A i \in Sells :
           /\ Positive(purr_free)
           /\ Positive(Decimal(purr_size_str))
           /\ Positive(submitted[i].sz)
           /\ DecCmp(Decimal(purr_size_str), purr_to_sell) <= 0
    /\ SellNotActionable =>
           /\ pc = "done"
           /\ submitted = <<>>
           /\ calls = <<"spotMeta", "spotClearinghouseState">>
           /\ exit_msg = IF Positive(purr_free)
                         THEN "Computed PURR size <= 0 after rounding. Aborting."
                         ELSE "No PURR available on Spot."
           /\ purr_size_str /= "" =>
                  DecCmp(Decimal(purr_size_str), purr_to_sell) <= 0

\* a positive balance whose quantized size is 0
C8_Witness == SellNotActionable /\ Positive(purr_free) /\ pc = "done"

\* d is the integer part of x >= 0
IntegerPartOf(d, x) ==
    /\ d.special = ""
    /\ d.exp = 0
    /\ DecCmp(d, x) <= 0
    /\ DecCmp(x, DecAdd(d, Decimal("1"))) < 0

\* szDecimals of the base token is 0 and no --purr-amount was given
WholeUnitsOfAll == purr_sz_decimals = 0 /\ args.purr_amount = None

\* C9: with szDecimals = 0 and no explicit amount the submitted sell size is
\* the integer part of the free base balance: 123 for a balance of 123.7
C9_IntegerSize ==
    \A i \in Sells :
        WholeUnitsOfAll =>
            /\ IntegerPartOf(submitted[i].sz, purr_free)
            /\ DecCmp(purr_free, Decimal("123.7")) = 0 =>
                   submitted[i].sz = Decimal("123")

C9_Witness ==
    Sells /= {} /\ WholeUnitsOfAll /\ DecCmp(purr_free, Decimal("123.7")) = 0

\* C10: with weiDecimals = 8, a free quote balance of 50.00000003 after the
\* sell and no explicit amount, the transfer amount submitted is 49.99999995
C10_TransferExample ==
    \A i \in Transfers :
        (/\ args.mode = "sell_and_transfer"
         /\ usdc_wei_decimals = 8
         /\ args.usdc_amount = None
         /\ DecCmp(usdc_free, Decimal("50.00000003")) = 0) =>
            DecCmp(submitted[i].amount, Decimal("49.99999995")) = 0

Withdrawals == {i \in 1..Len(submitted) : submitted[i].op = "withdraw"}

\* a withdraw run that lacks --dest or --usdc-amount
WithdrawIncomplete ==
    /\ args.mode = "withdraw"
    /\ DestMissing(args.dest) \/ args.usdc_amount = None

\* the configuration errors of a run: the credentials, and the parameter
\* that a withdrawal lacks
ConfigurationErrors ==
    {"Set HL_ACCOUNT_ADDRESS and HL_SECRET_KEY in your environment.",
     IF DestMissing(args.dest)
     THEN "--dest is required for withdraw mode (Arbitrum address)"
     ELSE "--usdc-amount is required for withdraw mode"}

\* C11: a withdrawal is submitted only when both --dest and --usdc-amount
\* were given, and to that destination; when either is missing the run ends
\* with a configuration error and nothing submitted; no balance is ever read
\* in place of the amount
C11_WithdrawNeedsBoth ==
    /\ \A i \in Withdrawals :
           /\ ~WithdrawIncomplete
           /\ submitted[i].destination = TextOf(args.dest)
    /\ args.mode = "withdraw" =>
           \A j \in 1..Len(calls) : calls[j] /= "spotClearinghouseState"
    /\ WithdrawIncomplete =>
           /\ submitted = <<>>
           /\ pc = "done" => exit_msg \in ConfigurationErrors

\* C12: the amount of a submitted withdrawal is the largest multiple of
\* 10^-8 that is <= the explicit amount a: a multiple of 10^-8, at most a,
\* and less than 10^-8 below a (no margin unit subtracted)
C12_WithdrawFloor ==
    \A i \in Withdrawals :
        /\ MultipleOfPow10(submitted[i].amount, 8)
        /\ ~IsNaN(submitted[i].amount)
        /\ DecCmp(submitted[i].amount, Decimal(TextOf(args.usdc_amount))) <= 0
        /\ DecCmp(DecSub(Decimal(TextOf(args.usdc_amount)), submitted[i].amount),
                  Pow10Neg(8)) < 0

\* a balance read has returned and no later one has replaced its response:
\* the quote balance is read last, and a sell_and_transfer run whose second
\* read did not return has made five steps
LatestReadReturned == QuoteRead \/ (BaseRead /\ Len(calls) < 5)

\* the token of the latest balance read, and the value that read returned
ReadToken == IF QuoteRead THEN quote_token ELSE base_token
ReadFree == IF QuoteRead THEN usdc_free ELSE purr_free

\* the records of a token in the latest balance response
Records(token) ==
    {i \in 1..Len(state.balances) : state.balances[i].coin = token}

\* a + b without rounding, for finite values
ExactSum(a, b) ==
    IF DecIsZero(a) THEN b
    ELSE IF DecIsZero(b) THEN a
    ELSE SumAligned(a.sign, AlignedInt(a, Min(a.exp, b.exp)),
                    b.sign, AlignedInt(b, Min(a.exp, b.exp)), Min(a.exp, b.exp))

\* free is total - hold: free + hold is total, exactly; for an infinity or a
\* NaN among them free is what the subtraction defines
IsDifference(free, total, hold) ==
    IF free.special /= "" \/ total.special /= "" \/ hold.special /= ""
    THEN free = DecSub(total, hold)
    ELSE DecCmp(ExactSum(free, hold), total) = 0

\* free is total - hold of the record at index i
FreeOfRecord(free, i) ==
    IsDifference(free, Decimal(state.balances[i].total),
                 Decimal(state.balances[i].hold))

\* C13: the balance read returns total - hold of the first record of the
\* token in the response, and exactly 0 when the response has no record of
\* the token
C13_FreeBalance ==
    LatestReadReturned =>
        IF Records(ReadToken) = {}
        THEN ReadFree = Decimal("0")
        ELSE \E i \in Records(ReadToken) :
                 /\ \A j \in Records(ReadToken) : i <= j
                 /\ FreeOfRecord(ReadFree, i)

\* the universe entries of the pair in the fetched snapshot
Listings == {i \in 1..Len(meta.universe) : meta.universe[i].name = pair_name}

\* both tokens are in the fetched snapshot, so the pair lookup is reached
TokensListed ==
    /\ \E i \in 1..Len(meta.tokens) : meta.tokens[i].name = base_token
    /\ \E i \in 1..Len(meta.tokens) : meta.tokens[i].name = quote_token

\* line 210 has assigned the asset id
IdAssigned == pair_asset_id /= -1

\* lines 203-210 have run
Resolved == pc \notin {"start", "meta", "resolve"} /\ meta.tokens /= <<>>

\* C14: the asset id is 10000 + the index of the pair's first entry in the
\* snapshot's universe; for a pair absent from the universe the lookup fails
\* with the not-found error and no id is assigned
C14_PairAssetId ==
    /\ IdAssigned =>
           \E i \in Listings :
               /\ \A j \in Listings : i <= j
               /\ pair_asset_id = 10000 + meta.universe[i].index
    /\ (Resolved /\ TokensListed) =>
           IF Listings = {}
           THEN pc = "done" /\ exit_msg = "RuntimeError" /\ ~IdAssigned
           ELSE IdAssigned

\* the lookup of a pair that the snapshot does not list
C14_Witness ==
    /\ Resolved
    /\ TokensListed
    /\ Listings = {}
    /\ exit_msg = "RuntimeError"

\* a venue call has raised: a timeout or a non-success response
Failed == exit_msg = "HTTPError"

\* C15: a run submits at most one sell, at most one transfer and at most
\* one withdrawal, a failed venue call ends the run, and no step after a
\* failed venue call makes a venue call or a submission
C15_NoRetry ==
    /\ [](/\ Cardinality(Sells) <= 1
          /\ Cardinality(Transfers) <= 1
          /\ Cardinality(Withdrawals) <= 1
          /\ Failed => pc = "done")
    /\ [][Failed => calls' = calls /\ submitted' = submitted]_vars

\* the sell submission has failed, after the metadata and balance queries
C15_Witness ==
    /\ Failed
    /\ Sells = {1}
    /\ calls = <<"spotMeta", "spotClearinghouseState", "order">>
    /\ pc = "done"

\* the steps of a sell_and_transfer run, in the order of lines 201-255
SellSteps ==
    <<"spotMeta", "spotClearinghouseState", "order", "sleep",
      "spotClearinghouseState", "usdClassTransfer">>

\* the transfer amount that lines 242-250 derive from a quote balance
AmountFrom(free) ==
    AmountStr(SafeAmount(TransferAmount(args.usdc_amount, free),
                         UsdcTick(usdc_wei_decimals)),
              UsdcTick(usdc_wei_decimals))

\* C16: the steps of a sell_and_transfer run are an initial part of: base
\* balance read, sell, delay, quote balance read, transfer; a transfer
\* follows the sell, and the quote balance its amount comes from is the one
\* read after the sell and the delay
C16_SellOrder ==
    args.mode = "sell_and_transfer" =>
        /\ Len(calls) <= Len(SellSteps)
        /\ calls = SubSeq(SellSteps, 1, Len(calls))
        /\ \A i \in Transfers : \E j \in Sells : j < i
        /\ QuoteRead =>
               /\ Len(calls) >= 5
               /\ BaseRead
               /\ usdc_free = get_spot_balance(state, quote_token)
        /\ \A i \in Transfers :
               /\ QuoteRead
               /\ submitted[i].amount = float(AmountFrom(usdc_free))

\* a sell_and_transfer run that has gone through all its steps
C16_Witness ==
    /\ args.mode = "sell_and_transfer"
    /\ calls = SellSteps
    /\ Sells = {1}
    /\ Transfers = {2}

\* the entries of a token in the fetched snapshot
TokenEntries(token) ==
    {i \in 1..Len(meta.tokens) : meta.tokens[i].name = token}

\* field f of the first entry of a token is n
SnapshotHas(token, f, n) ==
    \E i \in TokenEntries(token) :
        /\ \A j \in TokenEntries(token) : i <= j
        /\ meta.tokens[i][f] = n

\* C17: the metadata is fetched once, as the first venue call of a run that
\* has its credentials, and never again; the decimals that size the sell and
\* the transfer are those of the fetched snapshot
C17_MetaOnce ==
    /\ \A j \in 1..Len(calls) : calls[j] = "spotMeta" <=> j = 1
    /\ ~env_ok => calls = <<>>
    /\ (env_ok /\ pc \notin {"start", "meta"}) => calls /= <<>>
    /\ purr_sz_decimals /= -1 =>
           SnapshotHas(base_token, "szDecimals", purr_sz_decimals)
    /\ usdc_wei_decimals /= -1 =>
           SnapshotHas(quote_token, "weiDecimals", usdc_wei_decimals)
    /\ submitted /= <<>> => purr_sz_decimals /= -1 /\ usdc_wei_decimals /= -1
    /\ \A i \in Sells :
           submitted[i].sz = float(round_size(purr_to_sell, purr_sz_decimals))
    /\ \A i \in Transfers :
           submitted[i].amount =
               float(AmountStr(safe_amount, UsdcTick(usdc_wei_decimals)))

\* a run that has fetched the snapshot, read both balances and submitted a
\* sell and a transfer
C17_Witness ==
    /\ Len(calls) = Len(SellSteps)
    /\ calls[1] = "spotMeta"
    /\ Sells /= {}
    /\ Transfers /= {}
    /\ SnapshotHas(quote_token, "weiDecimals", MaxDecimals)

\* the venue calls of a run are among those of the set
CallsWithin(allowed) == \A j \in 1..Len(calls) : calls[j] \in allowed

\* C18: a transfer_only run submits no sell and no withdrawal, a withdraw
\* run submits no sell and no transfer and reads no balance, and a
\* sell_and_transfer run submits no withdrawal: each run makes the calls of
\* its own mode only
C18_ModesIsolated ==
    /\ args.mode = "transfer_only" =>
           /\ Sells = {}
           /\ Withdrawals = {}
           /\ ~BaseRead
           /\ CallsWithin({"spotMeta", "spotClearinghouseState", "usdClassTransfer"})
    /\ args.mode = "withdraw" =>
           /\ Sells = {}
           /\ Transfers = {}
           /\ ~BaseRead
           /\ ~QuoteRead
           /\ CallsWithin({"spotMeta", "withdraw3"})
    /\ args.mode = "sell_and_transfer" =>
           /\ Withdrawals = {}
           /\ CallsWithin({"spotMeta", "spotClearinghouseState", "order",
                           "sleep", "usdClassTransfer"})

\* a withdraw run that has submitted its withdrawal
C18_Witness ==
    /\ args.mode = "withdraw"
    /\ Withdrawals = {1}
    /\ calls = <<"spotMeta", "withdraw3">>

\* the quote balance was read on the transfer path and is > 0
QuoteAvailable ==
    /\ args.mode \in {"sell_and_transfer", "transfer_only"}
    /\ QuoteRead
    /\ Positive(usdc_free)

\* C19: on the transfer path, once the free quote balance read is > 0 the
\* transfer is about to be submitted or has been submitted exactly once, and
\* its amount is 0 when min(explicit, free) floored to a multiple of
\* 10^-weiDecimals less one unit of 10^-weiDecimals is <= 0
C19_ZeroTransferSubmitted ==
    QuoteAvailable =>
        /\ pc = "xfer" \/ Cardinality(Transfers) = 1
        /\ \A i \in Transfers :
               ~Positive(DecSub(FloorPow10(AtLeastZero(DesiredTransfer),
                                           usdc_wei_decimals),
                                Pow10Neg(usdc_wei_decimals)))
                   => DecIsZero(submitted[i].amount)

====
